---- MODULE Spec2Model ----
(***************************************************************************)
(* Client-side data-synchronisation layer of pirjust/ai-trading:           *)
(*   - WebSocketManager, apiUtils.retryRequest, CacheManager               *)
(*     (services/api.ts, src/unnamed/part_001)                             *)
(*   - the React hooks of frontend/src/hooks/useApi.ts                     *)
(* Each component has its own variables, its own actions and its own       *)
(* specification (SpecWS, SpecRetry, ...); the variables of the other      *)
(* components stay at their initial values under a given specification.    *)
(***************************************************************************)
EXTENDS Integers, Sequences, FiniteSets, Bags, TLC

VARIABLES
  \* ---- WebSocketManager (one address `url`) ----
  sockets,            \* the WebSocket objects created for url and not yet closed, in creation order
  connections,        \* this.connections: Map url -> index into sockets
  reconnectAttempts,  \* this.reconnectAttempts: Map url -> number
  timers,             \* the pending setTimeout reconnect callbacks (a bag)
  wsLastCallback,     \* the consumer callback the last step invoked: <<kind, subscriber>>
  wsNonCleanSinceOpen,\* history: non-clean close events since the last open event
  wsCallerDisconnected,\* history: disconnect(url) was called after the last explicit connect
  wsSubscribed,       \* history: subscribers that called connect and not yet their handle
  wsNeverOpened,      \* history: no transport of the address has opened so far
  wsWire,             \* history: the send calls whose message was handed to ws.send
  wsDropped,          \* history: the send calls whose message was dropped with a warning
  \* ---- apiUtils.retryRequest (one invocation at a time) ----
  rtPc,               \* "idle" | "calling" (awaiting requestFn()) | "waiting" (backoff) | "resolved" | "rejected"
  rtMaxRetries,       \* parameter maxRetries
  rtDelay,            \* parameter delay
  rtI,                \* the loop variable i
  rtLastError,        \* lastError (NoValue while undefined)
  rtResult,           \* the value the returned promise settled with (NoValue before)
  rtCalls,            \* history: number of requestFn() invocations
  rtOutcomes,         \* history: the outcome of each settled attempt, in order
  rtWaits,            \* history: the backoff waits started, in order
  rtAbandoned,        \* history: the caller has abandoned the invocation during a wait
  \* ---- the clock ----
  now,                \* Date.now(), in milliseconds
  \* ---- CacheManager ----
  cache,              \* this.cache: Map key -> {data, timestamp, ttl}
  cacheResult,        \* what the last get(key) returned: [key, data] (NoValue for null)
  cacheGetFlip,       \* history: flips at every get call
  cacheSetLog,        \* history: per key, the arguments and time of the caller's last set not deleted or cleared since
  \* ---- usePaginatedApi (one consumer) ----
  pgAttached,         \* the consuming component is mounted
  pgMountedRef,       \* mountedRef.current
  pgLoading,          \* useState: loading
  pgData,             \* useState: data, the items loaded: [page, limit, len]
  pgTotalCount,       \* useState: totalCount
  pgCurrentPage,      \* useState: currentPage
  pgCurrentLimit,     \* useState: currentLimit
  pgError,            \* useState: error (NullError for null)
  pgInflight,         \* the requestFn(page, limit) promises not yet settled (a bag)
  pgEffectPending,
  pgCalled,           \* history: the function the consumer called last, and what it saw
  pgCallFlip,         \* history: flips at every call of a function by the consumer    \* the effect on [loadPage] has to run after the last commit
  \* ---- usePollingApi (one consumer) ----
  plAttached,         \* the consuming component is mounted
  plMountedRef,       \* mountedRef.current
  plLoading,          \* useState: loading
  plData,             \* useState: data (NoValue for null)
  plError,            \* useState: error (NullError for null)
  plIsPolling,        \* useState: isPolling
  plAutoStart,        \* the argument autoStart of the last render
  plIntervalRef,      \* intervalRef.current (NullHandle for null)
  plTimers,           \* the handles of the intervals that are set and not cleared
  plInflight,         \* number of requestFn() promises not yet settled
  plEffectPending,    \* the effect has not run yet after the first commit
  plStopped,          \* history: stopPolling was called after the consumer's last startPolling
  plInvokedBy,        \* history: what invoked requestFn last: "start", "tick" or "execute"
  plCallFlip,         \* history: flips at every invocation of requestFn
  \* ---- useDebouncedApi (one consumer) ----
  dbAttached,         \* the consuming component is mounted
  dbMountedRef,       \* mountedRef.current
  dbLoading,          \* useState: loading
  dbData,             \* useState: data (NoValue for null)
  dbError,            \* useState: error (NullError for null)
  dbTimeoutRef,       \* timeoutRef.current (NullHandle for null)
  dbTimers,           \* the timeouts set and neither fired nor cleared: [handle, deadline]
  dbInflight,         \* number of requestFn() promises not yet settled
  dbLastTrigger,      \* history: Date.now() at the last execute(true); NoTime before
  dbBurstN,           \* history: debounced triggers since the last gap of delay or more
  dbBurstCalls,       \* history: invocations of requestFn by a timeout in that burst
  dbBurstLive,        \* history: no immediate call, reset or unmount since that burst began
  \* ---- useCachedApi (one consumer, one key) ----
  caAttached,         \* the consuming component is mounted
  caMountedRef,       \* mountedRef.current
  caTtl,              \* the argument ttl of the current render
  caLoading,          \* useState: loading
  caData,             \* useState: data (NoValue for null)
  caError,            \* useState: error (NullError for null)
  caLastUpdated,      \* useState: lastUpdated (NoLastUpdated for null)
  caStore,            \* localStorage item cache_${key} (NoItem when absent)
  caInflight,         \* number of requestFn() promises not yet settled
  caEffectPending,    \* the mount effect has not run yet
  caForced,           \* history: the forceRefresh argument of the last call of execute
  caCallFlip,         \* history: flips at every call of execute
  \* ---- useApi (one consumer) ----
  apAttached,         \* the consuming component is mounted
  apMountedRef,       \* mountedRef.current
  apLoading,          \* useState: loading
  apData,             \* useState: data (NoValue for null)
  apError,            \* useState: error (NullError for null)
  apCalls,            \* the calls of execute that passed the mountedRef test, in order
  \* ---- apiClient and AuthService (one browser session) ----
  lsItems,            \* localStorage: the items set, by key
  auLoginAttempt,     \* the attempt of login()'s retryRequest in flight, 0 when no login runs
  auSent,             \* the headers of the requests apiClient sent, in order
  auInflight          \* requests of apiClient awaiting their response

wsVars == <<sockets, connections, reconnectAttempts, timers, wsLastCallback,
            wsNonCleanSinceOpen, wsCallerDisconnected, wsSubscribed,
            wsNeverOpened>>

sendVars == <<wsWire, wsDropped>>

rtVars == <<rtPc, rtMaxRetries, rtDelay, rtI, rtLastError, rtResult,
            rtCalls, rtOutcomes, rtWaits, rtAbandoned>>

cacheVars == <<cache, cacheResult, cacheGetFlip, cacheSetLog>>

pgVars == <<pgAttached, pgMountedRef, pgLoading, pgData, pgTotalCount, pgCurrentPage,
            pgCurrentLimit, pgError, pgInflight, pgEffectPending,
           pgCalled, pgCallFlip>>

plVars == <<plAttached, plMountedRef, plLoading, plData, plError, plIsPolling, plAutoStart,
            plIntervalRef, plTimers, plInflight, plEffectPending, plStopped, plInvokedBy,
            plCallFlip>>

dbVars == <<dbAttached, dbMountedRef, dbLoading, dbData, dbError, dbTimeoutRef, dbTimers,
            dbInflight, dbLastTrigger, dbBurstN, dbBurstCalls, dbBurstLive>>

caVars == <<caAttached, caMountedRef, caTtl, caLoading, caData, caError, caLastUpdated,
            caStore, caInflight, caEffectPending, caForced, caCallFlip>>

apVars == <<apAttached, apMountedRef, apLoading, apData, apError, apCalls>>

auVars == <<lsItems, auLoginAttempt, auSent, auInflight>>

vars == <<wsVars, sendVars, rtVars, now, cacheVars, pgVars, plVars, dbVars, caVars, apVars, auVars>>

\* The one endpoint address the Maps of WebSocketManager are keyed by.
url == "url"

\* new Map(): no entry for any key.
EmptyMap == [k \in {} |-> 0]
\* map.has(url), map.set(url, v)
Has(map) == url \in DOMAIN map
MapSet(v) == [k \in {url} |-> v]

(***************************************************************************)
(*                          WebSocketManager                               *)
(***************************************************************************)

\* private maxReconnectAttempts = 5
maxReconnectAttempts == 5
\* private reconnectDelay = 1000
reconnectDelay == 1000

\* Bound on the environment: explicit connect calls are made only while fewer
\* than MaxChains transports and reconnect timers exist for the address.
MaxChains == 2

\* The consumers calling connect(url, onMessage, onError); a subscriber stands
\* for its (onMessage, onError) pair.
Subs == {"A", "B"}

\* new WebSocket(wsUrl) with the handlers of connect's closure bound to `sub`.
\* `established` remembers whether the opening handshake completed.
NewSocket(sub) == [readyState |-> "CONNECTING", sub |-> sub, established |-> FALSE]

\* The step invoked no callback of a consumer.
NoCallback == <<"none", "none">>

\* Indices of the transports that are connecting or open.
LiveSockets == {i \in DOMAIN sockets : sockets[i].readyState \in {"CONNECTING", "OPEN"}}

\* seq without its i-th element
RemoveAt(seq, i) == [j \in 1..(Len(seq) - 1) |-> IF j < i THEN seq[j] ELSE seq[j + 1]]

\* A saturating history counter.
Bump(n) == IF n <= maxReconnectAttempts THEN n + 1 ELSE n

\* The body of connect(url, onMessage, onError): create the transport and
\* register it, whatever was registered before.
ConnectBody(sub) ==
  /\ sockets' = Append(sockets, NewSocket(sub))
  /\ connections' = MapSet(Len(sockets) + 1)

\* An explicit connect call by consumer `sub`.
Connect(sub) ==
  /\ Len(sockets) + BagCardinality(timers) < MaxChains
  /\ ConnectBody(sub)
  /\ wsCallerDisconnected' = FALSE
  /\ wsSubscribed' = wsSubscribed \cup {sub}
  /\ UNCHANGED <<reconnectAttempts, timers, wsNonCleanSinceOpen>>
  /\ wsLastCallback' = NoCallback
  /\ UNCHANGED wsNeverOpened

\* ws.onopen of transport i.
OnOpen(i) ==
  /\ sockets[i].readyState = "CONNECTING"
  /\ sockets' = [sockets EXCEPT ![i].readyState = "OPEN", ![i].established = TRUE]
  /\ reconnectAttempts' = MapSet(0)
  /\ wsNonCleanSinceOpen' = 0
  /\ wsNeverOpened' = FALSE
  /\ wsLastCallback' = NoCallback
  /\ UNCHANGED <<connections, timers, wsCallerDisconnected, wsSubscribed>>

\* ws.onmessage of transport i: JSON.parse succeeds (onMessage) or throws (onError).
OnMessage(i, parses) ==
  /\ sockets[i].readyState = "OPEN"
  /\ wsLastCallback' = <<IF parses THEN "message" ELSE "error", sockets[i].sub>>
  /\ UNCHANGED <<sockets, connections, reconnectAttempts, timers,
                 wsNonCleanSinceOpen, wsCallerDisconnected, wsSubscribed, wsNeverOpened>>

\* The guard of the reconnect branch of ws.onclose:
\* !event.wasClean && this.reconnectAttempts.get(url)! < this.maxReconnectAttempts
\* (undefined < 5 is false).
ShouldReconnectLax(wasClean) ==
  /\ ~wasClean
  /\ Has(reconnectAttempts)
  /\ reconnectAttempts[url] <= maxReconnectAttempts
ShouldReconnect(wasClean) ==
  /\ ~wasClean
  /\ Has(reconnectAttempts)
  /\ reconnectAttempts[url] < maxReconnectAttempts

\* The delay of the setTimeout of ws.onclose: this.reconnectDelay * attempts
ReconnectWaitFlat(attempts) == reconnectDelay
ReconnectWait(attempts) == reconnectDelay * attempts

\* ws.onclose of transport i (preceded in the same task by ws.onerror when the
\* connection failed). The registration is deleted whichever transport it
\* names. The closed transport is unreachable from then on and leaves `sockets`.
OnClose(i, wasClean) ==
  \* a transport closed before its handshake completed has failed: never clean
  /\ (~sockets[i].established) => ~wasClean
  /\ sockets' = RemoveAt(sockets, i)
  /\ connections' = EmptyMap
  /\ wsLastCallback' = IF wasClean THEN NoCallback ELSE <<"error", sockets[i].sub>>
  /\ wsNonCleanSinceOpen' = IF wasClean THEN wsNonCleanSinceOpen ELSE Bump(wsNonCleanSinceOpen)
  /\ IF ShouldReconnect(wasClean)
       THEN /\ reconnectAttempts' = MapSet(reconnectAttempts[url] + 1)
            /\ timers' = timers (+) SetToBag({[sub |-> sockets[i].sub,
                              delay |-> ReconnectWait(reconnectAttempts[url] + 1)]})
       ELSE UNCHANGED <<reconnectAttempts, timers>>
  /\ UNCHANGED <<wsCallerDisconnected, wsSubscribed, wsNeverOpened>>

\* The reconnect timer set by ws.onclose fires: this.connect(url, onMessage, onError).
ReconnectTimer(t) ==
  /\ BagIn(t, timers)
  /\ timers' = timers (-) SetToBag({t})
  /\ ConnectBody(t.sub)
  /\ UNCHANGED <<reconnectAttempts, wsNonCleanSinceOpen,
                 wsCallerDisconnected, wsSubscribed>>
  /\ wsLastCallback' = NoCallback
  /\ UNCHANGED wsNeverOpened

\* ws.close(): a connecting or open transport starts closing.
CloseSocket(ss, i) ==
  IF ss[i].readyState \in {"CONNECTING", "OPEN"}
    THEN [ss EXCEPT ![i].readyState = "CLOSING"]
    ELSE ss

\* disconnect(url); `by` is the subscriber whose handle (the function connect
\* returned) was invoked, or "direct" for a call of disconnect(url) itself.
Disconnect(by) ==
  /\ by \in wsSubscribed \cup {"direct"}
  /\ IF Has(connections)
       THEN /\ sockets' = CloseSocket(sockets, connections[url])
            /\ connections' = EmptyMap
            /\ reconnectAttempts' = EmptyMap
       ELSE UNCHANGED <<sockets, connections, reconnectAttempts>>
  /\ wsCallerDisconnected' = TRUE
  /\ wsSubscribed' = IF by \in Subs THEN wsSubscribed \ {by} ELSE {}
  /\ UNCHANGED <<timers, wsNonCleanSinceOpen>>
  /\ wsLastCallback' = NoCallback
  /\ UNCHANGED wsNeverOpened

\* disconnectAll()
DisconnectAll ==
  /\ sockets' = IF Has(connections) THEN CloseSocket(sockets, connections[url]) ELSE sockets
  /\ connections' = EmptyMap
  /\ reconnectAttempts' = EmptyMap
  /\ UNCHANGED <<timers, wsNonCleanSinceOpen,
                 wsCallerDisconnected, wsSubscribed>>
  /\ wsLastCallback' = NoCallback
  /\ UNCHANGED wsNeverOpened

\* isConnected(url): ws !== undefined && ws.readyState === WebSocket.OPEN,
\* the test send(url, data) makes as well.
IsConnectedAnyState == Has(connections)
IsConnected == Has(connections) /\ sockets[connections[url]].readyState = "OPEN"

\* Bound: calls of send.
MaxSends == 2

\* The calls of send made so far are numbered 1, 2, ...
SendsMade == Cardinality(wsWire \cup wsDropped)

\* send(url, data): ws.send(JSON.stringify(data)) if the registered transport
\* is open, a warning otherwise.
Send ==
  /\ SendsMade < MaxSends
  /\ IF IsConnected
       THEN wsWire' = wsWire \cup {SendsMade + 1} /\ UNCHANGED wsDropped
       ELSE wsDropped' = wsDropped \cup {SendsMade + 1} /\ UNCHANGED wsWire
  /\ UNCHANGED wsVars

InitWS ==
  /\ sockets = <<>>
  /\ connections = EmptyMap
  /\ reconnectAttempts = EmptyMap
  /\ timers = EmptyBag
  /\ wsLastCallback = NoCallback
  /\ wsNeverOpened = TRUE
  /\ wsWire = {}
  /\ wsDropped = {}
  /\ wsNonCleanSinceOpen = 0
  /\ wsCallerDisconnected = FALSE
  /\ wsSubscribed = {}

\* The other components take no step while WebSocketManager does.
FrameWS ==
  UNCHANGED <<sendVars, rtVars, now, cacheVars, pgVars, plVars, dbVars, caVars, apVars, auVars>>

NextWS ==
  \/ \E sub \in Subs : Connect(sub) /\ FrameWS
  \/ \E i \in DOMAIN sockets : OnOpen(i) /\ FrameWS
  \/ \E i \in DOMAIN sockets, parses \in BOOLEAN : OnMessage(i, parses) /\ FrameWS
  \/ \E i \in DOMAIN sockets, wasClean \in BOOLEAN : OnClose(i, wasClean) /\ FrameWS
  \/ \E t \in BagToSet(timers) : ReconnectTimer(t) /\ FrameWS
  \/ \E by \in Subs \cup {"direct"} : Disconnect(by) /\ FrameWS
  \/ DisconnectAll /\ FrameWS

\* WebSocketManager with one consumer that also calls send(url, data).
Sender == "A"

FrameSend ==
  UNCHANGED <<rtVars, now, cacheVars, pgVars, plVars, dbVars, caVars, apVars, auVars>>

NextSend ==
  \/ Send /\ FrameSend
  \/ Connect(Sender) /\ UNCHANGED sendVars /\ FrameSend
  \/ \E i \in DOMAIN sockets : OnOpen(i) /\ UNCHANGED sendVars /\ FrameSend
  \/ \E i \in DOMAIN sockets, wasClean \in BOOLEAN :
       OnClose(i, wasClean) /\ UNCHANGED sendVars /\ FrameSend
  \/ \E t \in BagToSet(timers) : ReconnectTimer(t) /\ UNCHANGED sendVars /\ FrameSend
  \/ Disconnect(Sender) /\ UNCHANGED sendVars /\ FrameSend

\* C20: send transmits the message only if the transport registered for the
\* address is open at the call; a message sent in any other state is dropped
\* and is never transmitted later, whatever opens or reconnects afterwards.
C20_SendOnlyWhenOpen ==
  /\ [][\A m \in 1..MaxSends :
          (m \notin wsWire \cup wsDropped /\ m \in wsWire' \cup wsDropped')
            => (m \in wsWire' <=> (Has(connections)
                                     /\ sockets[connections[url]].readyState = "OPEN"))]_vars
  /\ [][\A m \in wsDropped : m \in wsDropped' /\ m \notin wsWire']_vars
  /\ [](wsWire \cap wsDropped = {})

\* C20 witness: the first message was sent while the reconnect's transport
\* was still connecting and was dropped; the transport has opened since and
\* only the second message, sent after that, was transmitted.
C20_Witness ==
  /\ wsDropped = {1} /\ wsWire = {2}
  /\ Has(reconnectAttempts) /\ reconnectAttempts[url] = 0
  /\ IsConnected

(***************************************************************************)
(*                   Claims about WebSocketManager                         *)
(***************************************************************************)

\* C1: at every reachable state at most one transport of the address is
\* connecting or open, whatever sequence of connect and disconnect calls
\* was made.
C1_AtMostOneLiveTransport == Cardinality(LiveSockets) <= 1

\* C2 (as stated): after maxAttempts consecutive non-clean closures with no
\* successful open in between, no reconnect is scheduled.
C2_TerminalAfterMaxAttemptsClosures ==
  wsNonCleanSinceOpen >= maxReconnectAttempts => timers = EmptyBag

\* C2 (amended): once maxAttempts consecutive non-clean closures have happened
\* with no successful open in between, no step schedules a further reconnect:
\* the (maxAttempts+1)-th and every later non-clean closure leaves the timers
\* as they are.
C2_NoRescheduleAfterMaxAttempts ==
  [][wsNonCleanSinceOpen >= maxReconnectAttempts
       => BagCardinality(timers') <= BagCardinality(timers)]_vars

\* C2 witness: the (maxAttempts+1)-th consecutive non-clean closure has
\* happened on a channel whose counter reached maxAttempts, and nothing is
\* scheduled or in progress.
C2_Witness ==
  /\ wsNonCleanSinceOpen = maxReconnectAttempts + 1
  /\ Has(reconnectAttempts) /\ reconnectAttempts[url] = maxReconnectAttempts
  /\ timers = EmptyBag
  /\ sockets = <<>>

\* C3: once the caller has disconnected the address, no transport is created
\* for it until connect is called again.
C3_NoReconnectAfterDisconnect ==
  [][(wsCallerDisconnected /\ wsCallerDisconnected') => Len(sockets') <= Len(sockets)]_vars

\* C4: when the handle of one of several subscriptions is invoked, every open
\* transport that serves a remaining subscription stays open.
C4_OtherSubscriptionKeepsTransport ==
  [][\A a \in Subs :
       (a \in wsSubscribed /\ wsSubscribed' = wsSubscribed \ {a} /\ wsSubscribed' # {})
         => \A i \in DOMAIN sockets :
              (sockets[i].readyState = "OPEN" /\ sockets[i].sub \in wsSubscribed')
                => (i \in DOMAIN sockets' /\ sockets'[i].readyState = "OPEN")]_vars

\* The close event of transport i is handled in this step.
WsCloses(i) == i \in DOMAIN sockets /\ sockets' = RemoveAt(sockets, i)

\* C15: when no transport of the address has opened yet and the transport
\* created by a call of connect fails and closes without having opened, the
\* failure is reported through onError and a reconnect is scheduled.
C15_FirstConnectFailureRetries ==
  [][\A i \in DOMAIN sockets :
       (wsNeverOpened /\ WsCloses(i) /\ sockets[i].readyState = "CONNECTING")
         => /\ wsLastCallback' = <<"error", sockets[i].sub>>
            /\ BagCardinality(timers') = BagCardinality(timers) + 1]_vars

\* C26: whenever the newest transport of the address is open (a transport the
\* caller has disconnected is closing, not open), it is the registered one:
\* isConnected(url) is true and send(url, ...) reaches it, whatever older
\* transports of the address have closed in the meantime.
C26_SupersededCloseKeepsRegistration ==
  (sockets # <<>> /\ sockets[Len(sockets)].readyState = "OPEN")
    => (IsConnected /\ connections[url] = Len(sockets))

\* C16: the reconnect scheduled by the k-th consecutive non-clean closure
\* since the last successful open waits reconnectDelay * k; and the first
\* non-clean closure of the registered transport after it opened schedules a
\* reconnect after reconnectDelay * 1.
C16_LinearBackoffAndReset ==
  [][/\ \A t \in BagToSet(timers') :
          CopiesIn(t, timers') > CopiesIn(t, timers)
            => t.delay = reconnectDelay * wsNonCleanSinceOpen'
     /\ \A i \in DOMAIN sockets :
          (/\ WsCloses(i) /\ sockets[i].readyState = "OPEN"
           /\ Has(connections) /\ connections[url] = i
           /\ wsNonCleanSinceOpen = 0 /\ wsNonCleanSinceOpen' = 1)
            => \E t \in BagToSet(timers') :
                 /\ t.delay = reconnectDelay * 1
                 /\ CopiesIn(t, timers') = CopiesIn(t, timers) + 1]_vars

\* C16 witness: after an open, a first closure was retried after
\* reconnectDelay * 1, the retry failed, and the second consecutive closure
\* has its reconnect pending with reconnectDelay * 2.
C16_Witness ==
  /\ wsNonCleanSinceOpen = 2
  /\ Has(reconnectAttempts) /\ reconnectAttempts[url] = 2
  /\ BagToSet(timers) = {[sub |-> "A", delay |-> reconnectDelay * 2]}
  /\ sockets = <<>>

(***************************************************************************)
(*                        apiUtils.retryRequest                            *)
(***************************************************************************)

\* Bound: the largest maxRetries argument tried.
MaxRetriesArg == 3

\* The delay arguments tried (the call sites pass 1000 and 500).
DelayArgs == {500, 1000}

\* What requestFn() can settle with: a value, or an error.
Values == {"v1", "v2"}
Errors == {"e1", "e2"}
NoValue == "undefined"
Outcomes == [ok : {TRUE}, val : Values] \cup [ok : {FALSE}, val : Errors]

\* 2^n
RECURSIVE Pow2(_)
Pow2(n) == IF n = 0 THEN 1 ELSE 2 * Pow2(n - 1)

\* What the errors stand for: e1 for a request that got no response (fetch
\* rejects), e2 for input the server refused (the Error thrown on !response.ok).
ErrorKind(e) == IF e = "e1" THEN "network" ELSE "validation"

\* The wait after the failure of the attempt with loop variable i:
\* delay * Math.pow(2, i)
BackoffWaitFlat(delay, i) == delay
BackoffWait(delay, i) == delay * Pow2(i)

\* The loop condition of `for (let i = 0; i < maxRetries; i++)`.
LoopContinuesInclusive(i, maxRetries) == i <= maxRetries
LoopContinues(i, maxRetries) == i < maxRetries

\* The loop from its condition on, with loop variable i: either requestFn() is
\* invoked (attempt i+1) or the loop is left and lastError is thrown.
RetryLoop(i, lastError) ==
  IF LoopContinues(i, rtMaxRetries)
    THEN /\ rtPc' = "calling"
         /\ rtCalls' = rtCalls + 1
         /\ rtResult' = rtResult
    ELSE /\ rtPc' = "rejected"
         /\ rtCalls' = rtCalls
         /\ rtResult' = lastError

\* retryRequest(requestFn, maxRetries, delay) is called.
RetryStart(maxRetries, delay) ==
  /\ rtPc = "idle"
  /\ rtMaxRetries' = maxRetries
  /\ rtDelay' = delay
  /\ rtI' = 0
  /\ rtLastError' = NoValue
  /\ rtOutcomes' = <<>>
  /\ rtWaits' = <<>>
  /\ rtAbandoned' = FALSE
  /\ IF LoopContinues(0, maxRetries)
       THEN rtPc' = "calling" /\ rtCalls' = 1 /\ rtResult' = NoValue
       ELSE rtPc' = "rejected" /\ rtCalls' = 0 /\ rtResult' = NoValue

\* The awaited requestFn() settles: `return await requestFn()` or the catch block.
RetrySettle(outcome) ==
  /\ rtPc = "calling"
  /\ rtOutcomes' = Append(rtOutcomes, outcome)
  /\ IF outcome.ok
       THEN /\ rtPc' = "resolved"
            /\ rtResult' = outcome.val
            /\ UNCHANGED <<rtI, rtLastError, rtCalls, rtWaits>>
       ELSE /\ rtLastError' = outcome.val
            /\ IF rtI < rtMaxRetries - 1
                 THEN /\ rtPc' = "waiting"
                      /\ rtWaits' = Append(rtWaits, BackoffWait(rtDelay, rtI))
                      /\ UNCHANGED <<rtI, rtResult, rtCalls>>
                 ELSE /\ rtI' = rtI + 1
                      /\ RetryLoop(rtI + 1, outcome.val)
                      /\ UNCHANGED rtWaits
  /\ UNCHANGED <<rtMaxRetries, rtDelay, rtAbandoned>>

\* The backoff timer fires: i++ and the next iteration.
RetryWaitDone ==
  /\ rtPc = "waiting"
  /\ rtI' = rtI + 1
  /\ RetryLoop(rtI + 1, rtLastError)
  /\ UNCHANGED <<rtMaxRetries, rtDelay, rtLastError, rtOutcomes, rtWaits, rtAbandoned>>

\* The caller abandons the invocation while a backoff wait is pending.
\* retryRequest takes no signal and exposes neither the timer nor a cancel
\* function: nothing of the invocation changes.
RetryAbandon ==
  /\ rtPc = "waiting"
  /\ ~rtAbandoned
  /\ rtAbandoned' = TRUE
  /\ UNCHANGED <<rtPc, rtMaxRetries, rtDelay, rtI, rtLastError, rtResult, rtCalls,
                 rtOutcomes, rtWaits>>

\* The caller has its result; the next invocation can be made.
RetryReturn ==
  /\ rtPc \in {"resolved", "rejected"}
  /\ rtPc' = "idle"
  /\ rtI' = 0
  /\ rtLastError' = NoValue
  /\ rtResult' = NoValue
  /\ rtCalls' = 0
  /\ rtOutcomes' = <<>>
  /\ rtWaits' = <<>>
  /\ rtAbandoned' = FALSE
  /\ UNCHANGED <<rtMaxRetries, rtDelay>>

InitRetry ==
  /\ rtPc = "idle"
  /\ rtMaxRetries = 3
  /\ rtDelay = 1000
  /\ rtI = 0
  /\ rtLastError = NoValue
  /\ rtResult = NoValue
  /\ rtCalls = 0
  /\ rtOutcomes = <<>>
  /\ rtWaits = <<>>
  /\ rtAbandoned = FALSE

FrameRetry ==
  UNCHANGED <<sendVars, wsVars, now, cacheVars, pgVars, plVars, dbVars, caVars, apVars, auVars>>

NextRetry ==
  \/ \E maxRetries \in 0..MaxRetriesArg, delay \in DelayArgs :
        RetryStart(maxRetries, delay) /\ FrameRetry
  \/ \E outcome \in Outcomes : RetrySettle(outcome) /\ FrameRetry
  \/ RetryWaitDone /\ FrameRetry
  \/ RetryAbandon /\ FrameRetry
  \/ RetryReturn /\ FrameRetry

(***************************************************************************)
(*                     Claims about retryRequest                           *)
(***************************************************************************)

\* The attempts settled so far all failed.
AllFailed(outs) == \A j \in DOMAIN outs : ~outs[j].ok

\* C5: for maxRetries >= 1 the operation is invoked exactly k times, k the
\* index of the first attempt that succeeds or maxRetries if none does; the
\* call resolves with that first success's value, invokes nothing after a
\* success, and rejects with the error of the final attempt when all fail.
C5_ExactAttempts ==
  rtMaxRetries >= 1 =>
    /\ rtCalls <= rtMaxRetries
    /\ rtPc = "calling" => (rtCalls = Len(rtOutcomes) + 1 /\ AllFailed(rtOutcomes))
    /\ rtPc = "waiting" => (rtCalls = Len(rtOutcomes) /\ AllFailed(rtOutcomes))
    /\ rtPc = "resolved" =>
         /\ rtCalls = Len(rtOutcomes)
         /\ rtOutcomes[rtCalls].ok
         /\ AllFailed(SubSeq(rtOutcomes, 1, rtCalls - 1))
         /\ rtResult = rtOutcomes[rtCalls].val
    /\ rtPc = "rejected" =>
         /\ rtCalls = rtMaxRetries
         /\ Len(rtOutcomes) = rtMaxRetries
         /\ AllFailed(rtOutcomes)
         /\ rtResult = rtOutcomes[rtMaxRetries].val

\* C5 witness: three failing attempts, rejected with the error of the third.
C5_Witness ==
  /\ rtPc = "rejected" /\ rtCalls = 3 /\ rtMaxRetries = 3
  /\ rtOutcomes[1].val = "e1" /\ rtResult = "e2"

\* C17: the wait after the failure of attempt a, when attempts remain, is
\* delay * 2^(a-1); the waits of one invocation never decrease; and no wait
\* follows the final failed attempt.
C17_ExponentialWaits ==
  rtMaxRetries >= 1 =>
    /\ \A a \in DOMAIN rtWaits : rtWaits[a] = rtDelay * Pow2(a - 1)
    /\ \A a \in DOMAIN rtWaits, b \in DOMAIN rtWaits : a <= b => rtWaits[a] <= rtWaits[b]
    /\ rtPc \in {"calling", "waiting"} => Len(rtWaits) = Len(rtOutcomes)
    /\ rtPc \in {"resolved", "rejected"} => Len(rtWaits) = Len(rtOutcomes) - 1
    /\ Len(rtWaits) <= rtMaxRetries - 1

\* C17 witness: three failed attempts with delay 500: waits of 500 and 1000,
\* none after the third failure.
C17_Witness ==
  /\ rtPc = "rejected" /\ rtMaxRetries = 3 /\ rtDelay = 500
  /\ rtWaits = <<500, 1000>> /\ Len(rtOutcomes) = 3

\* C18: an attempt that fails with a validation error is the last attempt:
\* the invocation is rejected with that error and invokes nothing more.
C18_NoRetryOfValidationErrors ==
  \A j \in DOMAIN rtOutcomes :
    (~rtOutcomes[j].ok /\ ErrorKind(rtOutcomes[j].val) = "validation")
      => (rtPc = "rejected" /\ rtCalls = j /\ rtResult = rtOutcomes[j].val)

\* C19: once the caller has abandoned a pending backoff wait, the operation
\* is not invoked again and the invocation settles with a cancellation, neither
\* a value nor an error of the operation.
C19_AbandonedWaitCancels ==
  [][rtAbandoned => (rtCalls' <= rtCalls /\ rtPc' \notin {"calling", "resolved"}
                       /\ (rtPc' = "rejected" => rtResult' = "cancelled"))]_vars

(***************************************************************************)
(*                               The clock                                 *)
(***************************************************************************)

\* Date.now() at the start of a behaviour (any positive number of milliseconds).
StartTime == 1000
\* The clock advances in steps of TickStep milliseconds,
TickStep == 500
\* Bound: ... at most MaxTicks times.
MaxTicks == 6

CanTick == now < StartTime + MaxTicks * TickStep

\* JavaScript truthiness of a number.
Truthy(n) == n # 0

(***************************************************************************)
(*                             CacheManager                                *)
(***************************************************************************)

Keys == {"k1", "k2"}

\* The ttlSeconds arguments tried, besides leaving the argument out.
TtlArgs == {0, 1, 2}

\* The entry set(key, data, ttl) stores. A ttl field of NoTtl stands for
\* undefined: ttl ? Date.now() + ttl * 1000 : undefined
NoTtl == 0
CacheEntry(data, given, ttl) ==
  [data |-> data, timestamp |-> now,
   ttl |-> IF given /\ Truthy(ttl) THEN now + ttl * 1000 ELSE NoTtl]

\* item.ttl && <time> > item.ttl
Expired(item, time) == Truthy(item.ttl) /\ time > item.ttl

\* The expiry check of get: item.ttl && Date.now() > item.ttl
ExpiredOnReadSweepOnly(item) == FALSE
ExpiredOnRead(item) == Expired(item, now)

\* map.delete(key)
MapDelete(map, key) == [k \in DOMAIN map \ {key} |-> map[k]]

\* set(key, data, ttl?)
CacheSet(key, data, given, ttl) ==
  /\ cache' = [k \in DOMAIN cache \cup {key} |->
                 IF k = key THEN CacheEntry(data, given, ttl) ELSE cache[k]]
  /\ cacheSetLog' = [k \in DOMAIN cacheSetLog \cup {key} |->
                       IF k = key
                         THEN [data |-> data, given |-> given,
                               ttl |-> IF given THEN ttl ELSE NoTtl, at |-> now]
                         ELSE cacheSetLog[k]]
  /\ UNCHANGED <<now, cacheResult, cacheGetFlip>>

\* get(key)
CacheGet(key) ==
  /\ cacheGetFlip' = ~cacheGetFlip
  /\ IF key \notin DOMAIN cache
       THEN /\ cacheResult' = [key |-> key, data |-> NoValue]
            /\ UNCHANGED cache
       ELSE IF ExpiredOnRead(cache[key])
         THEN /\ cache' = MapDelete(cache, key)
              /\ cacheResult' = [key |-> key, data |-> NoValue]
         ELSE /\ cacheResult' = [key |-> key, data |-> cache[key].data]
              /\ UNCHANGED cache
  /\ UNCHANGED <<now, cacheSetLog>>

\* delete(key)
CacheDelete(key) ==
  /\ cache' = MapDelete(cache, key)
  /\ cacheSetLog' = MapDelete(cacheSetLog, key)
  /\ UNCHANGED <<now, cacheResult, cacheGetFlip>>

\* clear()
CacheClear ==
  /\ cache' = [k \in {} |-> 0]
  /\ cacheSetLog' = [k \in {} |-> 0]
  /\ UNCHANGED <<now, cacheResult, cacheGetFlip>>

\* cleanExpired(), called by the consumer or by the setInterval of 60 s.
CleanExpired ==
  /\ cache' = [k \in {j \in DOMAIN cache : ~Expired(cache[j], now)} |-> cache[k]]
  /\ UNCHANGED <<now, cacheResult, cacheGetFlip, cacheSetLog>>

\* Time passes.
CacheTick ==
  /\ CanTick
  /\ now' = now + TickStep
  /\ UNCHANGED cacheVars

InitCache ==
  /\ cache = [k \in {} |-> 0]
  /\ cacheResult = [key |-> "k1", data |-> NoValue]
  /\ cacheGetFlip = FALSE
  /\ cacheSetLog = [k \in {} |-> 0]

FrameCache ==
  UNCHANGED <<sendVars, wsVars, rtVars, pgVars, plVars, dbVars, caVars, apVars, auVars>>

NextCache ==
  \/ \E key \in Keys, data \in Values, given \in BOOLEAN, ttl \in TtlArgs :
        CacheSet(key, data, given, ttl) /\ FrameCache
  \/ \E key \in Keys : CacheGet(key) /\ FrameCache
  \/ \E key \in Keys : CacheDelete(key) /\ FrameCache
  \/ CacheClear /\ FrameCache
  \/ CleanExpired /\ FrameCache
  \/ CacheTick /\ FrameCache

(***************************************************************************)
(*                      Claims about CacheManager                          *)
(***************************************************************************)

C21_TtlExpiryIncludingZero ==
  [][cacheGetFlip' # cacheGetFlip =>
       LET key == cacheResult'.key IN
         key \in DOMAIN cacheSetLog =>
           LET last == cacheSetLog[key] IN
             /\ (last.given /\ now > last.at + last.ttl * 1000) =>
                  cacheResult'.data = NoValue
             /\ ~last.given => cacheResult'.data = last.data]_vars

(***************************************************************************)
(*              What the hooks of useApi.ts have in common                 *)
(***************************************************************************)

\* The errors requestFn() can reject with, as apiUtils.handleError tells them
\* apart: an HTTP error response (with or without a code in its body), a
\* request that got no response, anything else.
ThrownErrors == {[kind |-> "response", code |-> "SERVER_CODE"],
                 [kind |-> "response", code |-> NoValue],
                 [kind |-> "request", code |-> NoValue],
                 [kind |-> "other", code |-> NoValue]}

\* new Error(response.error || '...'): what the hooks make of a success=false response.
ResponseError == [kind |-> "other", code |-> NoValue]

\* apiUtils.handleError(error): the {code, message} of the ApiError.
HandleError(error) ==
  IF error.kind = "response"
    THEN [code |-> IF error.code # NoValue THEN error.code ELSE "UNKNOWN_ERROR",
          message |-> "response message"]
    ELSE IF error.kind = "request"
      THEN [code |-> "NETWORK_ERROR", message |-> "network message"]
      ELSE [code |-> "UNKNOWN_ERROR", message |-> "error message"]

\* useState<ApiError | null>(null)
NullError == [code |-> NoValue, message |-> NoValue]

\* A response.data that is falsy (0, "", false).
FalsyData == "falsy"

\* What requestFn() settles with: a response with success = true and its data,
\* a response with success = false, or a rejection.
HookOutcomes ==
  [type : {"ok"}, data : Values \cup {FalsyData}, error : {ResponseError}]
    \cup [type : {"fail"}, data : {NoValue}, error : {ResponseError}]
    \cup [type : {"reject"}, data : {NoValue}, error : ThrownErrors]

\* response.success && response.data
SuccessWithData(outcome) == outcome.type = "ok" /\ outcome.data # FalsyData

\* The error a settlement that is no success with data leaves in the session.
OutcomeError(outcome) ==
  HandleError(IF outcome.type = "reject" THEN outcome.error ELSE ResponseError)

\* useRef<NodeJS.Timeout | null>(null)
NullHandle == 0

\* clearInterval(handle) / clearTimeout(handle) on the set of live timers.
ClearTimer(live, handle) == live \ {handle}

\* The handle setInterval / setTimeout returns: one not in use.
FreshHandle(live, ref) ==
  CHOOSE h \in 1..(Cardinality(live) + 2) : h \notin live /\ h # ref

(***************************************************************************)
(*                           usePaginatedApi                               *)
(***************************************************************************)

\* The arguments initialPage (default 1) and initialLimit of the consumer.
initialPage == 1
initialLimit == 2

\* The limits changeLimit is called with.
Limits == {1, 2}

\* Bound: the largest total the server reports.
MaxTotal == 3

\* Bound on the environment: the consumer calls no function of the hook while
\* MaxInflight requests are in flight.
MaxInflight == 2

Min(a, b) == IF a < b THEN a ELSE b
Max(a, b) == IF a > b THEN a ELSE b

\* useState<T[]>([])
NoItems == [page |-> 0, limit |-> 0, len |-> 0]

\* response.data.items for requestFn(page, limit) when the server holds `total` rows.
Items(page, limit, total) ==
  [page |-> page, limit |-> limit, len |-> Min(limit, Max(0, total - (page - 1) * limit))]

\* What requestFn(page, limit) settles with: a response with success and data,
\* a response with success = false, or a rejection.
PgOutcomes ==
  [type : {"ok"}, total : 0..MaxTotal, error : {ResponseError}]
    \cup [type : {"fail"}, total : {0}, error : {ResponseError}]
    \cup [type : {"reject"}, total : {0}, error : ThrownErrors]

\* What the consumer sees of the session.
pgVisible == <<pgData, pgError, pgLoading, pgCurrentPage, pgCurrentLimit, pgTotalCount>>

\* loadPage(page, limit) up to its await.
LoadPage(page, limit) ==
  IF ~pgMountedRef
    THEN UNCHANGED <<pgLoading, pgError, pgInflight>>
    ELSE /\ pgLoading' = TRUE
         /\ pgError' = NullError
         /\ pgInflight' = pgInflight (+) SetToBag({[page |-> page, limit |-> limit]})

\* The step is no call of the consumer and no failed settlement.
NoCall == [fn |-> "none", page |-> 0, limit |-> 0, len |-> 0, total |-> 0]

\* The effect `useEffect(() => { loadPage(); }, [loadPage])`: it runs after the
\* first commit and after every commit in which loadPage is a new function,
\* that is in which currentPage or currentLimit changed.
PgLoadEffect ==
  /\ pgAttached
  /\ pgEffectPending
  /\ pgEffectPending' = FALSE
  /\ LoadPage(pgCurrentPage, pgCurrentLimit)
  /\ pgCalled' = NoCall
  /\ UNCHANGED <<pgAttached, pgMountedRef, pgData, pgTotalCount, pgCurrentPage, pgCurrentLimit,
                 pgCallFlip>>

\* The consumer may call the functions of the last render.
PgCallable ==
  /\ pgAttached
  /\ ~pgEffectPending
  /\ BagCardinality(pgInflight) < MaxInflight

\* The consumer's call of fn, made in a render that shows the current state.
PgCalls(fn) ==
  /\ pgCalled' = [fn |-> fn, page |-> pgCurrentPage, limit |-> pgCurrentLimit,
                  len |-> pgData.len, total |-> pgTotalCount]
  /\ pgCallFlip' = ~pgCallFlip

\* const hasNextPage = (currentPage - 1) * currentLimit + data.length < totalCount
HasNextPageInclusive ==
  (pgCurrentPage - 1) * pgCurrentLimit + pgData.len <= pgTotalCount
HasNextPage ==
  (pgCurrentPage - 1) * pgCurrentLimit + pgData.len < pgTotalCount

\* nextPage()
PgNextPage ==
  /\ PgCallable
  /\ PgCalls("nextPage")
  /\ IF HasNextPage
       THEN LoadPage(pgCurrentPage + 1, pgCurrentLimit)
       ELSE UNCHANGED <<pgLoading, pgError, pgInflight>>
  /\ UNCHANGED <<pgAttached, pgMountedRef, pgData, pgTotalCount, pgCurrentPage,
                 pgCurrentLimit, pgEffectPending>>

\* prevPage()
PgPrevPage ==
  /\ PgCallable
  /\ PgCalls("prevPage")
  /\ IF pgCurrentPage > 1
       THEN LoadPage(pgCurrentPage - 1, pgCurrentLimit)
       ELSE UNCHANGED <<pgLoading, pgError, pgInflight>>
  /\ UNCHANGED <<pgAttached, pgMountedRef, pgData, pgTotalCount, pgCurrentPage,
                 pgCurrentLimit, pgEffectPending>>

\* refresh()
PgRefresh ==
  /\ PgCallable
  /\ PgCalls("refresh")
  /\ LoadPage(pgCurrentPage, pgCurrentLimit)
  /\ UNCHANGED <<pgAttached, pgMountedRef, pgData, pgTotalCount, pgCurrentPage,
                 pgCurrentLimit, pgEffectPending>>

\* changeLimit(newLimit)
PgChangeLimit(newLimit) ==
  /\ PgCallable
  /\ PgCalls("changeLimit")
  /\ LoadPage(1, newLimit)
  /\ UNCHANGED <<pgAttached, pgMountedRef, pgData, pgTotalCount, pgCurrentPage,
                 pgCurrentLimit, pgEffectPending>>

\* currentPage after the settlement of loadPage(page, limit): setCurrentPage(page)
\* is in the branch of response.success && response.data.
PageAfterLoadAlways(req, ok) == req.page
PageAfterLoad(req, ok) == IF ok THEN req.page ELSE pgCurrentPage

\* The awaited requestFn(page, limit) of a loadPage call settles: the rest of
\* loadPage. A commit that changes currentPage or currentLimit makes loadPage a
\* new function, and the load effect runs again.
PgSettle(req, outcome) ==
  /\ BagIn(req, pgInflight)
  /\ pgInflight' = pgInflight (-) SetToBag({req})
  /\ IF pgMountedRef
       THEN /\ IF outcome.type = "ok"
                 THEN /\ pgData' = Items(req.page, req.limit, outcome.total)
                      /\ pgTotalCount' = outcome.total
                      /\ pgCurrentLimit' = req.limit
                      /\ pgError' = pgError
                 ELSE /\ pgError' = HandleError(outcome.error)
                      /\ UNCHANGED <<pgData, pgTotalCount, pgCurrentLimit>>
            /\ pgCurrentPage' = PageAfterLoad(req, outcome.type = "ok")
            /\ pgLoading' = FALSE
       ELSE UNCHANGED <<pgData, pgTotalCount, pgCurrentPage, pgCurrentLimit, pgError, pgLoading>>
  /\ pgEffectPending' =
       (pgEffectPending \/
          (pgAttached /\ <<pgCurrentPage', pgCurrentLimit'>> # <<pgCurrentPage, pgCurrentLimit>>))
  \* history: a load that failed, with the arguments of its loadPage call
  /\ IF outcome.type = "ok"
       THEN pgCalled' = NoCall /\ UNCHANGED pgCallFlip
       ELSE /\ pgCalled' = [fn |-> "loadFailed", page |-> req.page, limit |-> req.limit,
                            len |-> pgData.len, total |-> pgTotalCount]
            /\ pgCallFlip' = ~pgCallFlip
  /\ UNCHANGED <<pgAttached, pgMountedRef>>

\* The consumer unmounts. usePaginatedApi registers no cleanup: mountedRef.current
\* is never set to false.
PgUnmount ==
  /\ pgAttached
  /\ pgAttached' = FALSE
  /\ pgCalled' = NoCall
  /\ UNCHANGED <<pgMountedRef, pgLoading, pgData, pgTotalCount, pgCurrentPage,
                 pgCurrentLimit, pgError, pgInflight, pgEffectPending, pgCallFlip>>

InitPage ==
  /\ pgAttached = TRUE
  /\ pgMountedRef = TRUE
  /\ pgLoading = FALSE
  /\ pgData = NoItems
  /\ pgTotalCount = 0
  /\ pgCurrentPage = initialPage
  /\ pgCurrentLimit = initialLimit
  /\ pgError = NullError
  /\ pgInflight = EmptyBag
  /\ pgEffectPending = TRUE
  /\ pgCalled = NoCall
  /\ pgCallFlip = FALSE

FramePage ==
  UNCHANGED <<sendVars, wsVars, rtVars, now, cacheVars, plVars, dbVars, caVars, apVars, auVars>>

NextPage ==
  \/ PgLoadEffect /\ FramePage
  \/ PgNextPage /\ FramePage
  \/ PgPrevPage /\ FramePage
  \/ PgRefresh /\ FramePage
  \/ \E newLimit \in Limits : PgChangeLimit(newLimit) /\ FramePage
  \/ \E req \in BagToSet(pgInflight), outcome \in PgOutcomes : PgSettle(req, outcome) /\ FramePage
  \/ PgUnmount /\ FramePage

(***************************************************************************)
(*                            usePollingApi                                *)
(***************************************************************************)

\* Bound: requestFn() promises of the poll in flight at once.
MaxPollInflight == 2

\* executeRequest() up to its await: requestFn is invoked unless the session is
\* torn down.
ExecuteRequest(by) ==
  IF plMountedRef
    THEN /\ plInflight' = plInflight + 1
         /\ plCallFlip' = ~plCallFlip
         /\ plInvokedBy' = by
    ELSE UNCHANGED <<plInflight, plCallFlip, plInvokedBy>>

\* Room for one more request in flight.
PlRoom == plInflight < MaxPollInflight

\* startPolling(), on the timers `live` left by what ran before it in the same step.
StartPolling(live) ==
  LET cleared == IF plIntervalRef # NullHandle THEN ClearTimer(live, plIntervalRef) ELSE live
      handle == FreshHandle(cleared, plIntervalRef)
  IN /\ plIsPolling' = TRUE
     /\ plLoading' = TRUE
     /\ plIntervalRef' = handle
     /\ plTimers' = cleared \cup {handle}

\* The consumer calls startPolling().
PlStartPolling ==
  /\ ~plEffectPending
  /\ PlRoom
  /\ StartPolling(plTimers)
  /\ ExecuteRequest("start")
  /\ plStopped' = FALSE
  /\ UNCHANGED <<plAttached, plMountedRef, plData, plError, plAutoStart, plEffectPending>>

\* The timers left by stopPolling: clearInterval(intervalRef.current).
TimersAfterStopLeaked == plTimers
TimersAfterStop ==
  IF plIntervalRef # NullHandle THEN ClearTimer(plTimers, plIntervalRef) ELSE plTimers

\* The consumer calls stopPolling().
PlStopPolling ==
  /\ ~plEffectPending
  /\ plTimers' = TimersAfterStop
  /\ plIntervalRef' = NullHandle
  /\ plIsPolling' = FALSE
  /\ plLoading' = FALSE
  /\ plStopped' = TRUE
  /\ UNCHANGED <<plAttached, plMountedRef, plData, plError, plAutoStart, plInflight,
                 plEffectPending, plInvokedBy, plCallFlip>>

\* An interval fires: executeRequest().
PlTick(handle) ==
  /\ handle \in plTimers
  /\ PlRoom
  /\ ExecuteRequest("tick")
  /\ UNCHANGED <<plAttached, plMountedRef, plLoading, plData, plError, plIsPolling,
                 plAutoStart, plIntervalRef, plTimers, plEffectPending, plStopped>>

\* The consumer calls execute(), which is executeRequest.
PlExecute ==
  /\ ~plEffectPending
  /\ PlRoom
  /\ ExecuteRequest("execute")
  /\ UNCHANGED <<plAttached, plMountedRef, plLoading, plData, plError, plIsPolling,
                 plAutoStart, plIntervalRef, plTimers, plEffectPending, plStopped>>

\* An awaited requestFn() settles: the rest of executeRequest.
PlSettle(outcome) ==
  /\ plInflight > 0
  /\ plInflight' = plInflight - 1
  /\ IF plMountedRef
       THEN /\ IF SuccessWithData(outcome)
                 THEN plData' = outcome.data /\ plError' = NullError
                 ELSE plData' = plData /\ plError' = OutcomeError(outcome)
            /\ plLoading' = FALSE
       ELSE UNCHANGED <<plData, plError, plLoading>>
  /\ UNCHANGED <<plAttached, plMountedRef, plIsPolling, plAutoStart, plIntervalRef, plTimers,
                 plEffectPending, plStopped, plInvokedBy, plCallFlip>>

\* The cleanup of the effect: clearInterval(intervalRef.current) and
\* mountedRef.current = false. It leaves intervalRef.current as it is.
CleanupTimers ==
  IF plIntervalRef # NullHandle THEN ClearTimer(plTimers, plIntervalRef) ELSE plTimers

\* The consumer mounts with its autoStart argument (useState(autoStart) for
\* isPolling) and the effect runs after the first commit:
\* if (autoStart) startPolling().
PlMountEffect(autoStart) ==
  /\ plAttached
  /\ plEffectPending
  /\ plEffectPending' = FALSE
  /\ plAutoStart' = autoStart
  /\ IF autoStart
       THEN StartPolling(plTimers) /\ ExecuteRequest("start")
       ELSE /\ plIsPolling' = FALSE
            /\ UNCHANGED <<plLoading, plIntervalRef, plTimers,
                           plInflight, plCallFlip, plInvokedBy>>
  /\ UNCHANGED <<plAttached, plMountedRef, plData, plError, plStopped>>

\* The consumer renders with another interval, autoStart or requestFn: a
\* dependency of the effect changed, so its cleanup runs and then the effect
\* again. executeRequest, called by the effect's startPolling, finds
\* mountedRef.current false.
PlDepsChange(autoStart) ==
  /\ plAttached
  /\ ~plEffectPending
  /\ plMountedRef' = FALSE
  /\ plAutoStart' = autoStart
  /\ IF autoStart
       THEN StartPolling(CleanupTimers)
       ELSE /\ plTimers' = CleanupTimers
            /\ UNCHANGED <<plIsPolling, plLoading, plIntervalRef>>
  /\ UNCHANGED <<plAttached, plData, plError, plInflight, plEffectPending, plStopped,
                 plInvokedBy, plCallFlip>>

\* The consumer unmounts: the cleanup of the effect runs.
PlUnmount ==
  /\ plAttached
  /\ plAttached' = FALSE
  /\ plTimers' = IF plEffectPending THEN plTimers ELSE CleanupTimers
  /\ plMountedRef' = IF plEffectPending THEN plMountedRef ELSE FALSE
  /\ UNCHANGED <<plLoading, plData, plError, plIsPolling, plAutoStart, plIntervalRef,
                 plInflight, plEffectPending, plStopped, plInvokedBy, plCallFlip>>

\* autoStart defaults to true.
InitPoll ==
  /\ plAttached = TRUE
  /\ plMountedRef = TRUE
  /\ plLoading = FALSE
  /\ plData = NoValue
  /\ plError = NullError
  /\ plAutoStart = TRUE
  /\ plIsPolling = TRUE
  /\ plIntervalRef = NullHandle
  /\ plTimers = {}
  /\ plInflight = 0
  /\ plEffectPending = TRUE
  /\ plStopped = FALSE
  /\ plInvokedBy = "none"
  /\ plCallFlip = FALSE

FramePoll ==
  UNCHANGED <<sendVars, wsVars, rtVars, now, cacheVars, pgVars, dbVars, caVars, apVars, auVars>>

NextPoll ==
  \/ \E autoStart \in BOOLEAN : PlMountEffect(autoStart) /\ FramePoll
  \/ PlStartPolling /\ FramePoll
  \/ PlStopPolling /\ FramePoll
  \/ \E handle \in plTimers : PlTick(handle) /\ FramePoll
  \/ PlExecute /\ FramePoll
  \/ \E outcome \in HookOutcomes : PlSettle(outcome) /\ FramePoll
  \/ \E autoStart \in BOOLEAN : PlDepsChange(autoStart) /\ FramePoll
  \/ PlUnmount /\ FramePoll

(***************************************************************************)
(*                           useDebouncedApi                               *)
(***************************************************************************)

\* The argument delay of the consumer, in milliseconds (two clock steps).
dbDelay == 1000

\* Bound: requestFn() promises of the debounced session in flight at once.
MaxDbInflight == 2

\* Bound on the environment: debounced triggers in one burst.
MaxBurst == 3

\* No execute(true) was called yet.
NoTime == 0

\* A timeout is due. Timeouts fire on time: a due timeout runs before the
\* clock advances and before the consumer's next call.
DbDue == \E t \in dbTimers : t.deadline <= now

\* if (timeoutRef.current) { clearTimeout(timeoutRef.current); }
DbClearedKeepsPending == dbTimers
DbCleared ==
  IF dbTimeoutRef # NullHandle
    THEN {t \in dbTimers : t.handle # dbTimeoutRef}
    ELSE dbTimers

\* The async function both branches of execute run: its part up to the await.
DbRun ==
  IF dbMountedRef
    THEN /\ dbLoading' = TRUE
         /\ dbError' = NullError
         /\ dbInflight' = dbInflight + 1
    ELSE UNCHANGED <<dbLoading, dbError, dbInflight>>

\* The consumer calls execute(true): the pending timeout is cleared and a new
\* one is set.
DbContinuesBurst ==
  dbLastTrigger # NoTime /\ now - dbLastTrigger < dbDelay /\ dbBurstLive

DbExecuteDebounced ==
  /\ ~DbDue
  /\ DbContinuesBurst => dbBurstN < MaxBurst
  /\ LET handle == FreshHandle({t.handle : t \in DbCleared}, dbTimeoutRef)
     IN /\ dbTimers' = DbCleared \cup {[handle |-> handle, deadline |-> now + dbDelay]}
        /\ dbTimeoutRef' = handle
  /\ dbLastTrigger' = now
  /\ IF DbContinuesBurst
       THEN UNCHANGED <<dbBurstCalls, dbBurstLive>> /\ dbBurstN' = dbBurstN + 1
       ELSE dbBurstCalls' = 0 /\ dbBurstLive' = dbMountedRef /\ dbBurstN' = 1
  /\ UNCHANGED <<dbAttached, dbMountedRef, dbLoading, dbData, dbError, dbInflight>>

\* The consumer calls execute(false): the pending timeout is cleared and the
\* request runs at once.
DbExecuteImmediate ==
  /\ ~DbDue
  /\ dbInflight < MaxDbInflight
  /\ dbTimers' = DbCleared
  /\ DbRun
  /\ dbBurstLive' = FALSE
  /\ UNCHANGED <<dbAttached, dbMountedRef, dbData, dbTimeoutRef, dbLastTrigger,
                 dbBurstN, dbBurstCalls>>

\* A timeout fires: the callback of setTimeout up to its await.
DbTimeout(t) ==
  /\ t \in dbTimers
  /\ t.deadline <= now
  /\ dbTimers' = dbTimers \ {t}
  /\ DbRun
  /\ dbBurstCalls' = IF dbMountedRef THEN dbBurstCalls + 1 ELSE dbBurstCalls
  /\ UNCHANGED <<dbAttached, dbMountedRef, dbData, dbTimeoutRef, dbLastTrigger,
                 dbBurstN, dbBurstLive>>

\* An awaited requestFn() settles: the rest of the async function.
DbSettle(outcome) ==
  /\ dbInflight > 0
  /\ dbInflight' = dbInflight - 1
  /\ IF dbMountedRef
       THEN /\ IF SuccessWithData(outcome)
                 THEN dbData' = outcome.data /\ dbError' = dbError
                 ELSE dbData' = dbData /\ dbError' = OutcomeError(outcome)
            /\ dbLoading' = FALSE
       ELSE UNCHANGED <<dbData, dbError, dbLoading>>
  /\ UNCHANGED <<dbAttached, dbMountedRef, dbTimeoutRef, dbTimers, dbLastTrigger,
                 dbBurstN, dbBurstCalls, dbBurstLive>>

\* The consumer calls reset().
DbReset ==
  /\ dbTimers' = DbCleared
  /\ IF dbMountedRef
       THEN dbData' = NoValue /\ dbError' = NullError /\ dbLoading' = FALSE
       ELSE UNCHANGED <<dbData, dbError, dbLoading>>
  /\ dbBurstLive' = FALSE
  /\ UNCHANGED <<dbAttached, dbMountedRef, dbTimeoutRef, dbInflight, dbLastTrigger,
                 dbBurstN, dbBurstCalls>>

\* The consumer unmounts: the cleanup clears the pending timeout and sets
\* mountedRef.current = false.
DbUnmount ==
  /\ dbAttached
  /\ dbAttached' = FALSE
  /\ dbTimers' = DbCleared
  /\ dbMountedRef' = FALSE
  /\ dbBurstLive' = FALSE
  /\ UNCHANGED <<dbLoading, dbData, dbError, dbTimeoutRef, dbInflight, dbLastTrigger,
                 dbBurstN, dbBurstCalls>>

\* Time passes, unless a timeout is due.
DbTick ==
  /\ CanTick
  /\ ~DbDue
  /\ now' = now + TickStep
  /\ UNCHANGED dbVars

InitDebounce ==
  /\ dbAttached = TRUE
  /\ dbMountedRef = TRUE
  /\ dbLoading = FALSE
  /\ dbData = NoValue
  /\ dbError = NullError
  /\ dbTimeoutRef = NullHandle
  /\ dbTimers = {}
  /\ dbInflight = 0
  /\ dbLastTrigger = NoTime
  /\ dbBurstN = 0
  /\ dbBurstCalls = 0
  /\ dbBurstLive = FALSE

FrameDebounce ==
  UNCHANGED <<sendVars, wsVars, rtVars, cacheVars, pgVars, plVars, caVars, apVars, auVars>>

NextDebounce ==
  \/ DbExecuteDebounced /\ UNCHANGED now /\ FrameDebounce
  \/ DbExecuteImmediate /\ UNCHANGED now /\ FrameDebounce
  \/ \E t \in dbTimers : DbTimeout(t) /\ UNCHANGED now /\ FrameDebounce
  \/ \E outcome \in HookOutcomes : DbSettle(outcome) /\ UNCHANGED now /\ FrameDebounce
  \/ DbReset /\ UNCHANGED now /\ FrameDebounce
  \/ DbUnmount /\ UNCHANGED now /\ FrameDebounce
  \/ DbTick /\ FrameDebounce

(***************************************************************************)
(*                             useCachedApi                                *)
(***************************************************************************)

\* Bound: requestFn() promises of the cached session in flight at once.
MaxCaInflight == 2

\* The argument ttl left out (ttl?: number).
UndefinedTtl == -1

\* The ttl arguments tried, in seconds.
CaTtlArgs == {UndefinedTtl, 0, 1, 2}

\* useState<number | null>(null)
NoLastUpdated == 0

\* localStorage.getItem returns null.
NoItem == <<>>

\* JSON.stringify({ data, timestamp }): the text is modelled by the sequence
\* of its two fields.
Stringify(data, timestamp) == <<data, timestamp>>

\* JSON.parse of an item written by Stringify.
Parse(item) == [data |-> item[1], timestamp |-> item[2]]

\* !ttl
NotTtl(ttl) == ttl = UndefinedTtl \/ ~Truthy(ttl)

\* parsed.timestamp && (!ttl || Date.now() - parsed.timestamp < ttl * 1000)
CaFresh(parsed, ttl) ==
  Truthy(parsed.timestamp) /\ (NotTtl(ttl) \/ now - parsed.timestamp < ttl * 1000)

\* execute(forceRefresh) up to its await, under the ttl of the render that
\* created it.
CaExecuteBody(forceRefresh, ttl) ==
  /\ caForced' = forceRefresh
  /\ caCallFlip' = ~caCallFlip
  /\ IF ~caMountedRef
       THEN UNCHANGED <<caLoading, caData, caError, caLastUpdated, caInflight>>
       ELSE IF ~forceRefresh /\ caStore # NoItem /\ CaFresh(Parse(caStore), ttl)
         THEN /\ caData' = Parse(caStore).data
              /\ caLastUpdated' = Parse(caStore).timestamp
              /\ caLoading' = FALSE
              /\ UNCHANGED <<caError, caInflight>>
         ELSE /\ caLoading' = TRUE
              /\ caError' = NullError
              /\ caInflight' = caInflight + 1
              /\ UNCHANGED <<caData, caLastUpdated>>

\* The consumer mounts with its ttl argument and the effect runs execute().
CaMountEffect(ttl) ==
  /\ caAttached
  /\ caEffectPending
  /\ caEffectPending' = FALSE
  /\ caTtl' = ttl
  /\ CaExecuteBody(FALSE, ttl)
  /\ UNCHANGED <<caAttached, caMountedRef, caStore>>

\* The consumer calls execute(forceRefresh).
CaExecute(forceRefresh) ==
  /\ ~caEffectPending
  /\ caInflight < MaxCaInflight
  /\ CaExecuteBody(forceRefresh, caTtl)
  /\ UNCHANGED <<caAttached, caMountedRef, caTtl, caStore, caEffectPending>>

\* An awaited requestFn() settles: the rest of execute. localStorage.setItem
\* may throw (the catch only warns), so the item may stay as it was.
CaSettle(outcome, saved) ==
  /\ caInflight > 0
  /\ caInflight' = caInflight - 1
  /\ IF caMountedRef
       THEN /\ IF SuccessWithData(outcome)
                 THEN /\ caData' = outcome.data
                      /\ caLastUpdated' = now
                      /\ caStore' = IF saved THEN Stringify(outcome.data, now) ELSE caStore
                      /\ caError' = caError
                 ELSE /\ caError' = OutcomeError(outcome)
                      /\ UNCHANGED <<caData, caLastUpdated, caStore>>
            /\ caLoading' = FALSE
       ELSE UNCHANGED <<caData, caLastUpdated, caStore, caError, caLoading>>
  /\ UNCHANGED <<caAttached, caMountedRef, caTtl, caEffectPending, caForced, caCallFlip>>

\* The consumer calls invalidateCache().
CaInvalidateCache ==
  /\ ~caEffectPending
  /\ caStore' = NoItem
  /\ caData' = NoValue
  /\ caLastUpdated' = NoLastUpdated
  /\ caError' = NullError
  /\ UNCHANGED <<caAttached, caMountedRef, caTtl, caLoading, caInflight, caEffectPending,
                 caForced, caCallFlip>>

\* The consumer renders with another key, requestFn or ttl: execute is a new
\* function, a dependency of the effect, so the cleanup of the effect runs
\* (mountedRef.current = false) and then the effect calls the new execute().
CaDepsChange(ttl) ==
  /\ caAttached
  /\ ~caEffectPending
  /\ caMountedRef' = FALSE
  /\ caTtl' = ttl
  /\ caForced' = FALSE
  /\ caCallFlip' = ~caCallFlip
  /\ UNCHANGED <<caAttached, caLoading, caData, caError, caLastUpdated, caStore,
                 caInflight, caEffectPending>>

\* The consumer unmounts: the cleanup of the effect runs.
CaUnmount ==
  /\ caAttached
  /\ caAttached' = FALSE
  /\ caMountedRef' = IF caEffectPending THEN caMountedRef ELSE FALSE
  /\ UNCHANGED <<caTtl, caLoading, caData, caError, caLastUpdated, caStore, caInflight,
                 caEffectPending, caForced, caCallFlip>>

\* Time passes.
CaTick ==
  /\ CanTick
  /\ now' = now + TickStep
  /\ UNCHANGED caVars

InitCached ==
  /\ caAttached = TRUE
  /\ caMountedRef = TRUE
  /\ caTtl = UndefinedTtl
  /\ caLoading = FALSE
  /\ caData = NoValue
  /\ caError = NullError
  /\ caLastUpdated = NoLastUpdated
  /\ caStore = NoItem
  /\ caInflight = 0
  /\ caEffectPending = TRUE
  /\ caForced = FALSE
  /\ caCallFlip = FALSE

FrameCached ==
  UNCHANGED <<sendVars, wsVars, rtVars, cacheVars, pgVars, plVars, dbVars, apVars, auVars>>

NextCached ==
  \/ \E ttl \in CaTtlArgs : CaMountEffect(ttl) /\ UNCHANGED now /\ FrameCached
  \/ \E forceRefresh \in BOOLEAN : CaExecute(forceRefresh) /\ UNCHANGED now /\ FrameCached
  \/ \E outcome \in HookOutcomes, saved \in BOOLEAN :
       CaSettle(outcome, saved) /\ UNCHANGED now /\ FrameCached
  \/ CaInvalidateCache /\ UNCHANGED now /\ FrameCached
  \/ \E ttl \in CaTtlArgs : CaDepsChange(ttl) /\ UNCHANGED now /\ FrameCached
  \/ CaUnmount /\ UNCHANGED now /\ FrameCached
  \/ CaTick /\ FrameCached

(***************************************************************************)
(*                                useApi                                   *)
(***************************************************************************)

\* Bound: calls of execute in one session.
MaxApiCalls == 2

\* A rejection of requestFn() with null or undefined.
NullishError == [kind |-> "nullish", code |-> NoValue]

\* What the requestFn of a call of useApi.execute settles with.
ApOutcomes ==
  HookOutcomes \cup [type : {"reject"}, data : {NoValue}, error : {NullishError}]

\* What a throwing onSuccess or onError throws: an Error.
CallbackError == [kind |-> "other", code |-> NoValue]

\* Nothing was thrown.
NothingThrown == [kind |-> "none", code |-> NoValue]

\* A call of execute awaiting requestFn().
PendingCall ==
  [state |-> "pending", type |-> "none", data |-> NoValue, order |-> 0,
   onSuccess |-> 0, onError |-> 0, escaped |-> FALSE]

\* The calls that have settled.
ApSettled == {i \in 1..Len(apCalls) : apCalls[i].state = "settled"}

\* The consumer calls execute(requestFn, onSuccess, onError).
ApExecute ==
  /\ Len(apCalls) < MaxApiCalls
  /\ IF apMountedRef
       THEN /\ apLoading' = TRUE
            /\ apError' = NullError
            /\ apCalls' = Append(apCalls, PendingCall)
       ELSE UNCHANGED <<apLoading, apError, apCalls>>
  /\ UNCHANGED <<apAttached, apMountedRef, apData>>

\* The try block after the await: the error set, the callbacks invoked and
\* what is thrown into the catch block.
ApTry(outcome, onSuccessThrows, onErrorThrows) ==
  IF outcome.type = "reject"
    THEN [data |-> apData, error |-> apError, onSuccess |-> 0, onError |-> 0,
          thrown |-> outcome.error]
    ELSE IF SuccessWithData(outcome)
      THEN [data |-> outcome.data, error |-> apError, onSuccess |-> 1, onError |-> 0,
            thrown |-> IF onSuccessThrows THEN CallbackError ELSE NothingThrown]
      ELSE [data |-> apData, error |-> HandleError(ResponseError), onSuccess |-> 0,
            onError |-> 1, thrown |-> IF onErrorThrows THEN CallbackError ELSE NothingThrown]

\* The catch block on what the try block threw: handleError(err) throws a
\* TypeError on null and undefined (err.response), and onError may throw; either
\* leaves execute through its returned promise.
ApCatch(tried, onErrorThrows) ==
  IF tried.thrown = NothingThrown
    THEN [error |-> tried.error, onError |-> tried.onError, escaped |-> FALSE]
    ELSE IF tried.thrown = NullishError
      THEN [error |-> tried.error, onError |-> tried.onError, escaped |-> TRUE]
      ELSE [error |-> HandleError(tried.thrown), onError |-> tried.onError + 1,
            escaped |-> onErrorThrows]

\* The awaited requestFn() of call i settles: the rest of execute.
ApSettle(i, outcome, onSuccessThrows, onErrorThrows) ==
  /\ i \in 1..Len(apCalls)
  /\ apCalls[i].state = "pending"
  /\ LET tried == ApTry(outcome, onSuccessThrows, onErrorThrows)
         caught == ApCatch(tried, onErrorThrows)
         settled == [state |-> "settled", type |-> outcome.type, data |-> outcome.data,
                     order |-> Cardinality(ApSettled) + 1,
                     onSuccess |-> 0, onError |-> 0, escaped |-> FALSE]
     IN IF apMountedRef
          THEN /\ apData' = tried.data
               /\ apError' = caught.error
               /\ apLoading' = FALSE
               /\ apCalls' = [apCalls EXCEPT ![i] =
                                [settled EXCEPT !.onSuccess = tried.onSuccess,
                                                !.onError = caught.onError,
                                                !.escaped = caught.escaped]]
          ELSE /\ apCalls' = [apCalls EXCEPT ![i] = settled]
               /\ UNCHANGED <<apData, apError, apLoading>>
  /\ UNCHANGED <<apAttached, apMountedRef>>

\* The consumer calls reset().
ApReset ==
  /\ IF apMountedRef
       THEN apData' = NoValue /\ apError' = NullError /\ apLoading' = FALSE
       ELSE UNCHANGED <<apData, apError, apLoading>>
  /\ UNCHANGED <<apAttached, apMountedRef, apCalls>>

\* The consumer unmounts: the cleanup of the effect runs.
ApUnmount ==
  /\ apAttached
  /\ apAttached' = FALSE
  /\ apMountedRef' = FALSE
  /\ UNCHANGED <<apLoading, apData, apError, apCalls>>

InitApi ==
  /\ apAttached = TRUE
  /\ apMountedRef = TRUE
  /\ apLoading = FALSE
  /\ apData = NoValue
  /\ apError = NullError
  /\ apCalls = <<>>

FrameApi == UNCHANGED <<sendVars, wsVars, rtVars, now, cacheVars, pgVars, plVars, dbVars, caVars, auVars>>

NextApi ==
  \/ ApExecute /\ FrameApi
  \/ \E i \in 1..Len(apCalls), outcome \in ApOutcomes, s \in BOOLEAN, e \in BOOLEAN :
       ApSettle(i, outcome, s, e) /\ FrameApi
  \/ ApReset /\ FrameApi
  \/ ApUnmount /\ FrameApi

(***************************************************************************)
(*            Claims about the lifecycle of the hooks' sessions            *)
(***************************************************************************)

\* C7: once the consumer has detached, no step changes the session's visible
\* state (data, error, loading, page, limit, totalCount).
C7_NoMutationAfterDetach ==
  [][(~pgAttached) => pgVisible' = pgVisible]_vars

\* C11: prevPage() on page 1, and nextPage() when (currentPage - 1) *
\* currentLimit plus the number of loaded items is at least totalCount, start
\* no request and leave page, limit, items and totalCount as they are.
C11_PagingNoOps ==
  [][(pgCallFlip' # pgCallFlip
        /\ \/ pgCalled'.fn = "prevPage" /\ pgCurrentPage = 1
           \/ pgCalled'.fn = "nextPage"
                /\ (pgCurrentPage - 1) * pgCurrentLimit + pgData.len >= pgTotalCount)
       => /\ pgInflight' = pgInflight
          /\ UNCHANGED <<pgCurrentPage, pgCurrentLimit, pgData, pgTotalCount>>]_vars

\* C11 witness: nextPage() was called on the last page, the second, holding
\* the one remaining item of three, and nothing was started.
C11_Witness ==
  /\ pgCalled = [fn |-> "nextPage", page |-> 2, limit |-> 2, len |-> 1, total |-> 3]
  /\ pgCurrentPage = 2 /\ pgCurrentLimit = 2 /\ pgData.len = 1 /\ pgTotalCount = 3
  /\ pgInflight = EmptyBag /\ ~pgLoading

\* Math.ceil(totalCount / currentLimit), the hook's totalPages.
TotalPages == (pgTotalCount + pgCurrentLimit - 1) \div pgCurrentLimit

\* C25: in every reachable state of usePaginatedApi with initialPage = 1,
\* 1 <= currentPage <= max(1, ceil(totalCount / currentLimit)).
C25_CurrentPageWithinRange ==
  /\ 1 <= pgCurrentPage
  /\ pgCurrentPage <= Max(1, TotalPages)

\* C29: the settlement of a page load that fails (rejection or success =
\* false) leaves currentPage, currentLimit, the loaded items and totalCount
\* as they were and sets error and loading = false; changeLimit itself changes
\* none of the four either, so page and limit become 1 and the new limit only
\* through the successful settlement of its load.
C29_FailedLoadFrame ==
  /\ [][(pgCallFlip' # pgCallFlip /\ pgCalled'.fn = "loadFailed")
          => /\ UNCHANGED <<pgCurrentPage, pgCurrentLimit, pgData, pgTotalCount>>
             /\ pgError' # NullError
             /\ pgLoading' = FALSE]_vars
  /\ [][(pgCallFlip' # pgCallFlip /\ pgCalled'.fn = "changeLimit")
          => UNCHANGED <<pgCurrentPage, pgCurrentLimit, pgData, pgTotalCount>>]_vars

\* C29 witness: on page 2 of limit 2, holding the last of three items, the
\* load of changeLimit(1), loadPage(1, 1), has just failed: page, limit, items
\* and total are what they were.
C29_Witness ==
  /\ pgCalled = [fn |-> "loadFailed", page |-> 1, limit |-> 1, len |-> 1, total |-> 3]
  /\ pgCurrentPage = 2 /\ pgCurrentLimit = 2
  /\ pgData = Items(2, 2, 3) /\ pgTotalCount = 3
  /\ pgError # NullError /\ ~pgLoading

\* C30: the load effect, run again because currentPage or currentLimit
\* changed, starts no request for a (page, limit) whose items the session has
\* just loaded: the one invocation made by nextPage, prevPage or changeLimit
\* stays the only one.
C30_EffectDoesNotReissue ==
  [][(pgEffectPending /\ ~pgEffectPending'
        /\ pgData.page = pgCurrentPage /\ pgData.limit = pgCurrentLimit)
       => pgInflight' = pgInflight]_vars

\* C8: after stopPolling() and until the consumer calls startPolling() again,
\* nothing the hook has scheduled invokes the operation, whether a request was
\* in flight or a tick was due at the stop: the only invocations are those of
\* a call of execute() by the consumer itself.
C8_NoInvocationAfterStop ==
  [][(plStopped /\ plStopped' /\ plCallFlip' # plCallFlip) => plInvokedBy' = "execute"]_vars

\* C8 witness: polling was stopped with a request in flight, that request has
\* settled into the session, and no interval is left.
C8_Witness ==
  /\ plStopped /\ plAttached /\ plMountedRef
  /\ plInvokedBy = "tick"
  /\ plInflight = 0 /\ plData = "v1"
  /\ plTimers = {} /\ plIntervalRef = NullHandle

\* C22: at every state after the consumer has detached, the session of
\* usePollingApi holds no pending interval and the session of useDebouncedApi
\* holds no pending timeout, whatever startPolling or execute calls were made
\* after the detach.
C22_NoTimerAfterDetach ==
  /\ ~plAttached => plTimers = {}
  /\ ~dbAttached => dbTimers = {}

\* C24: the torn-down flag is set only by the consumer's detach: while the
\* consumer of usePollingApi or of useCachedApi is attached, whatever
\* interval, autoStart, operation, key or ttl it has rendered with,
\* mountedRef.current is true.
C24_TornDownOnlyOnDetach ==
  /\ plAttached => plMountedRef
  /\ caAttached => caMountedRef

\* C9: n >= 1 debounced triggers, each less than delay after the one before,
\* lead to exactly one invocation of the operation, no earlier than delay
\* after the last of them: a timeout invokes the operation only when delay has
\* passed since the last trigger and the burst has had no invocation yet; once
\* delay has passed and nothing is pending the burst has had exactly one; and
\* a trigger that begins a new burst finds the one before with exactly one.
C9_OneInvocationPerBurst ==
  /\ [][(dbBurstLive /\ dbBurstCalls' = dbBurstCalls + 1)
         => (now >= dbLastTrigger + dbDelay /\ dbBurstCalls = 0)]_vars
  /\ []((dbBurstLive /\ dbTimers = {} /\ now >= dbLastTrigger + dbDelay) => dbBurstCalls = 1)
  /\ []((dbBurstLive /\ dbTimers # {}) => dbBurstCalls = 0)
  /\ [][(dbBurstLive /\ dbBurstLive' /\ dbBurstN' = 1 /\ dbLastTrigger' # dbLastTrigger)
         => dbBurstCalls = 1]_vars

\* C9 witness: three triggers, the second and third within delay of the one
\* before, and one invocation after the quiet period.
C9_Witness ==
  /\ dbBurstLive /\ dbBurstN = 3 /\ dbBurstCalls = 1
  /\ dbLastTrigger > StartTime
  /\ now = dbLastTrigger + dbDelay
  /\ dbTimers = {} /\ dbInflight = 1

\* C10: while the consumer is attached and the item written back for the key
\* is in the store, a non-forced call of execute under a TTL of t seconds
\* returns the cached value without invoking the operation when less than t
\* seconds have passed since the write-back, and invokes the operation when more
\* than t seconds have passed.
C10_TtlGovernsCachedFetch ==
  [][(caAttached /\ caCallFlip' # caCallFlip /\ ~caForced' /\ caTtl' # UndefinedTtl
        /\ caStore # NoItem)
       => LET age == now - Parse(caStore).timestamp
          IN /\ age < caTtl' * 1000
                  => (caInflight' = caInflight /\ caData' = Parse(caStore).data)
             /\ age > caTtl' * 1000 => caInflight' = caInflight + 1]_vars

\* Call i of useApi.execute settles in this step.
ApSettles(i) ==
  /\ i \in 1..Len(apCalls)
  /\ apCalls[i].state = "pending"
  /\ apCalls'[i].state = "settled"

\* C12: whenever an operation started by the primitive settles while the
\* consumer is attached, loading is false afterwards, a failure (rejection or
\* success = false) leaves a {code, message} object as the session's error, and
\* no exception leaves the call of the primitive.
C12_SettlementClearsLoadingAndSetsError ==
  [][\A i \in 1..MaxApiCalls :
       (apAttached /\ ApSettles(i))
         => /\ apLoading' = FALSE
            /\ apCalls'[i].type \in {"fail", "reject"}
                 => (apError' # NullError /\ apError'.code # NoValue
                       /\ apError'.message # NoValue)
            /\ ~apCalls'[i].escaped]_vars

\* C13: if fetch A is started before fetch B and B settles successfully before
\* A, A's later settlement does not replace the session's data: the data
\* stays B's.
C13_StaleSettlementDoesNotOverwrite ==
  [][\A a \in 1..MaxApiCalls, b \in 1..MaxApiCalls :
       (/\ apAttached /\ a < b /\ ApSettles(a)
        /\ b <= Len(apCalls)
        /\ apCalls[b].state = "settled" /\ SuccessWithData(apCalls[b])
        /\ apData = apCalls[b].data)
         => apData' = apData]_vars

\* C14: every call of useApi.execute made while attached that has settled
\* with the consumer still attached has had exactly one of onSuccess and
\* onError invoked, exactly once.
C14_ExactlyOneTerminalSignal ==
  \A i \in 1..Len(apCalls) :
    (apAttached /\ apCalls[i].state = "settled")
      => apCalls[i].onSuccess + apCalls[i].onError = 1

\* C28: the settlement, while attached, of a call whose response has
\* success = true applies the response's data as the session's data, falsy
\* data (0, "", false) included, leaves the session's error as it was and does
\* not invoke onError.
C28_SuccessNeverSetsError ==
  [][\A i \in 1..MaxApiCalls :
       (apAttached /\ ApSettles(i) /\ apCalls'[i].type = "ok")
         => /\ apData' = apCalls'[i].data
            /\ apError' = apError
            /\ apCalls'[i].onError = 0]_vars

\* C27: while the consumer of useApi is attached, loading is true in every
\* state in which a call of execute is still awaiting its operation.
C27_LoadingWhilePending ==
  (apAttached /\ \E i \in 1..Len(apCalls) : apCalls[i].state = "pending") => apLoading

(***************************************************************************)
(*                       apiClient and AuthService                         *)
(***************************************************************************)

\* The localStorage keys: the one the request interceptor of apiClient reads,
\* and AuthService's tokenKey and userKey.
InterceptorTokenKey == "auth_token"
tokenKey == "ai_trading_token"
userKey == "ai_trading_user"

\* The access tokens the server issues and the request ids generateRequestId
\* draws.
Tokens == {"t1", "t2"}
RequestIds == {"r1", "r2"}

\* Bound: requests sent through apiClient in one behaviour.
MaxRequests == 2

\* retryRequest(loginRequest, 3, 1000)
loginRetries == 3

\* localStorage.getItem(key): null (NoValue) when the item is absent.
GetItem(key) == IF key \in DOMAIN lsItems THEN lsItems[key] ELSE NoValue
\* localStorage.setItem(key, value), localStorage.removeItem(key)
SetItem(items, key, value) ==
  [k \in DOMAIN items \cup {key} |-> IF k = key THEN value ELSE items[k]]
RemoveItem(items, key) == [k \in DOMAIN items \ {key} |-> items[k]]

\* AuthService.getToken()
GetToken == GetItem(tokenKey)

\* `Bearer ${token}`, and a request with no Authorization header.
Bearer(token) == <<"Bearer", token>>
NoAuthorization == <<>>

\* The request interceptor: the headers it leaves on the outgoing request.
RequestHeaders(id) ==
  LET token == GetItem(InterceptorTokenKey)
  IN [Authorization |-> IF token # NoValue THEN Bearer(token) ELSE NoAuthorization,
      requestId |-> id]

\* The consumer calls authService.login(credentials).
AuLoginStart ==
  /\ auLoginAttempt = 0
  /\ auLoginAttempt' = 1
  /\ UNCHANGED <<lsItems, auSent, auInflight>>

\* The fetch of loginRequest answers: on response.ok setToken and setUser, else
\* the attempt throws and retryRequest runs the next one, if any is left.
AuLoginSettle(ok, token) ==
  /\ auLoginAttempt > 0
  /\ IF ok
       THEN /\ lsItems' = SetItem(SetItem(lsItems, tokenKey, token), userKey, "user")
            /\ auLoginAttempt' = 0
       ELSE /\ auLoginAttempt' = IF auLoginAttempt < loginRetries
                                   THEN auLoginAttempt + 1 ELSE 0
            /\ UNCHANGED lsItems
  /\ UNCHANGED <<auSent, auInflight>>

\* clearAuth(), called by the consumer or at the end of logout().
ClearAuth ==
  /\ lsItems' = RemoveItem(RemoveItem(lsItems, tokenKey), userKey)
  /\ UNCHANGED <<auLoginAttempt, auSent, auInflight>>

\* A request is sent through apiClient: the request interceptor runs.
AuRequest(id) ==
  /\ Len(auSent) < MaxRequests
  /\ auSent' = Append(auSent, RequestHeaders(id))
  /\ auInflight' = auInflight + 1
  /\ UNCHANGED <<lsItems, auLoginAttempt>>

\* A response arrives: on status 401 the response interceptor removes the
\* item it knows the token by.
AuResponse(unauthorized) ==
  /\ auInflight > 0
  /\ auInflight' = auInflight - 1
  /\ lsItems' = IF unauthorized THEN RemoveItem(lsItems, InterceptorTokenKey) ELSE lsItems
  /\ UNCHANGED <<auLoginAttempt, auSent>>

InitAuth ==
  /\ lsItems = [k \in {} |-> 0]
  /\ auLoginAttempt = 0
  /\ auSent = <<>>
  /\ auInflight = 0

FrameAuth ==
  UNCHANGED <<sendVars, wsVars, rtVars, now, cacheVars, pgVars, plVars, dbVars, caVars, apVars>>

NextAuth ==
  \/ AuLoginStart /\ FrameAuth
  \/ \E ok \in BOOLEAN, token \in Tokens : AuLoginSettle(ok, token) /\ FrameAuth
  \/ ClearAuth /\ FrameAuth
  \/ \E id \in RequestIds : AuRequest(id) /\ FrameAuth
  \/ \E unauthorized \in BOOLEAN : AuResponse(unauthorized) /\ FrameAuth

\* C23: every request sent through apiClient carries a correlation identifier,
\* and while the access token stored by a successful login has not been
\* removed by logout or clearAuth, it carries that token as its bearer
\* credential.
C23_RequestsCarryLoginToken ==
  [][Len(auSent') > Len(auSent) =>
       LET headers == auSent'[Len(auSent')] IN
         /\ headers.requestId \in RequestIds
         /\ GetToken # NoValue => headers.Authorization = Bearer(GetToken)]_vars

(***************************************************************************)
(*                           Specifications                                *)
(***************************************************************************)

Init ==
  /\ InitWS /\ InitRetry /\ now = StartTime /\ InitCache
  /\ InitPage /\ InitPoll /\ InitDebounce /\ InitCached /\ InitApi /\ InitAuth

SpecWS == Init /\ [][NextWS]_vars

SpecSend == Init /\ [][NextSend]_vars

SpecRetry == Init /\ [][NextRetry]_vars

SpecCache == Init /\ [][NextCache]_vars

SpecPage == Init /\ [][NextPage]_vars

SpecPoll == Init /\ [][NextPoll]_vars

SpecDebounce == Init /\ [][NextDebounce]_vars

SpecCached == Init /\ [][NextCached]_vars

SpecApi == Init /\ [][NextApi]_vars

SpecAuth == Init /\ [][NextAuth]_vars

====
